---- MODULE Spec2Model ----
(***************************************************************************)
(* A model of the scholarly_identifiers crate: the recognisers for DOI,    *)
(* ORCID, ISBN and ROR, the generic URI fall-back, the dispatcher          *)
(* Identifier::parse and the codec to_uri / to_stable_string /             *)
(* to_id_string_pair / from_id_string_pair.                                *)
(*                                                                         *)
(* A string is a sequence of Unicode code points (naturals); Str("...")    *)
(* writes an ASCII literal.  A byte string is a sequence of 0..255.        *)
(* Option<T> is a sequence of length 0 (None) or 1 (Some).                 *)
(***************************************************************************)
EXTENDS Integers, Sequences, FiniteSets, TLC

VARIABLES raw, pc, id, out, back

vars == <<raw, pc, id, out, back>>

-----------------------------------------------------------------------------
(* Characters and strings *)

\* The printable ASCII characters in code order, U+0020 .. U+005F and
\* U+0061 .. U+007E (the grave accent U+0060 has no literal).
AsciiLow == " !\"#$%&'()*+,-./0123456789:;<=>?@ABCDEFGHIJKLMNOPQRSTUVWXYZ[\\]^_"

AsciiHigh == "abcdefghijklmnopqrstuvwxyz{|}~"

\* The one-character literals of the printable ASCII characters.
AsciiLiterals == {SubSeq(AsciiLow, i, i) : i \in 1..64} \cup {SubSeq(AsciiHigh, i, i) : i \in 1..30}

\* The code point of each literal: its place in the code order.
CodeTable == [c \in AsciiLiterals |-> CHOOSE n \in (32..95) \cup (97..126) : c = IF n < 96 THEN SubSeq(AsciiLow, n - 31, n - 31) ELSE SubSeq(AsciiHigh, n - 96, n - 96)]

\* The code point of a one-character ASCII literal.
Ch(c) == CodeTable[c]

\* The string (sequence of code points) of an ASCII literal.
Str(s) == [i \in 1..Len(s) |-> CodeTable[SubSeq(s, i, i)]]

None == <<>>

Some(v) == <<v>>

IsSome(o) == Len(o) = 1

Unwrap(o) == o[1]

\* Option::map
OptionMap(o, F(_)) == IF IsSome(o) THEN Some(F(Unwrap(o))) ELSE None

\* let v = ...; Body: the value is computed once and named in Body.
Bind(v, Body(_)) == Body(v)

\* Code points that have no ASCII literal: line feed, the grave accent, the
\* registered sign and the three Greek sigmas.
Uni == [LineFeed |-> 10, Grave |-> 96, Registered |-> 174, CapitalSigma |-> 931, FinalSigma |-> 962, SmallSigma |-> 963]

StartsWith(s, p) == Len(s) >= Len(p) /\ SubSeq(s, 1, Len(p)) = p

DropFirst(s, n) == SubSeq(s, n + 1, Len(s))

IsAsciiDigit(c) == c >= 48 /\ c <= 57

IsAsciiUpper(c) == c >= 65 /\ c <= 90

IsAsciiLower(c) == c >= 97 /\ c <= 122

IsAsciiLetter(c) == IsAsciiUpper(c) \/ IsAsciiLower(c)

Max(S) == CHOOSE x \in S : \A y \in S : y <= x

Min(S) == CHOOSE x \in S : \A y \in S : x <= y

RECURSIVE Flatten(_)
\* The concatenation of a sequence of sequences.
Flatten(ss) == IF ss = <<>> THEN <<>> ELSE Head(ss) \o Flatten(Tail(ss))

-----------------------------------------------------------------------------
(* Case conversion: str::to_lowercase and str::to_uppercase of the standard *)
(* library, over ASCII, the registered sign and the Greek sigmas.           *)

\* The Unicode property Cased, over the modelled code points.
Cased(c) == IsAsciiLetter(c) \/ c \in {Uni.CapitalSigma, Uni.FinalSigma, Uni.SmallSigma}

\* The Unicode property Case_Ignorable, over the modelled code points:
\* ' . : ^ and the grave accent.
CaseIgnorable(c) == c \in {Ch("'"), Ch("."), Ch(":"), Ch("^"), Uni.Grave}

\* case_ignorable_then_cased over the characters before position i, nearest first.
CasedBefore(s, i) == Bind({j \in 1..(i - 1) : ~CaseIgnorable(s[j])}, LAMBDA js : js # {} /\ Cased(s[Max(js)]))

\* case_ignorable_then_cased over the characters after position i.
CasedAfter(s, i) == Bind({j \in (i + 1)..Len(s) : ~CaseIgnorable(s[j])}, LAMBDA js : js # {} /\ Cased(s[Min(js)]))

\* map_uppercase_sigma: the capital sigma becomes the final sigma at the end
\* of a word and the small sigma elsewhere.
MapUppercaseSigma(s, i) == IF CasedBefore(s, i) /\ ~CasedAfter(s, i) THEN Uni.FinalSigma ELSE Uni.SmallSigma

LowerChar(c) == IF IsAsciiUpper(c) THEN c + 32 ELSE c

UpperChar(c) == IF IsAsciiLower(c) THEN c - 32 ELSE IF c \in {Uni.FinalSigma, Uni.SmallSigma} THEN Uni.CapitalSigma ELSE c

ToLowercase(s) == [i \in 1..Len(s) |-> IF s[i] = Uni.CapitalSigma THEN MapUppercaseSigma(s, i) ELSE LowerChar(s[i])]

ToUppercase(s) == [i \in 1..Len(s) |-> UpperChar(s[i])]

-----------------------------------------------------------------------------
(* UTF-8 and percent-encoding *)

\* char::encode_utf8
EncodeUtf8(c) == IF c < 128 THEN <<c>> ELSE IF c < 2048 THEN <<192 + (c \div 64), 128 + (c % 64)>> ELSE IF c < 65536 THEN <<224 + (c \div 4096), 128 + ((c \div 64) % 64), 128 + (c % 64)>> ELSE <<240 + (c \div 262144), 128 + ((c \div 4096) % 64), 128 + ((c \div 64) % 64), 128 + (c % 64)>>

\* str::as_bytes
AsBytes(s) == Flatten([i \in 1..Len(s) |-> EncodeUtf8(s[i])])

IsCont(b) == b >= 128 /\ b <= 191

\* The length of the well-formed UTF-8 sequence that starts b, 0 when there is none
\* (the table of the Unicode standard that str::from_utf8 implements).
Utf8Width(b) == LET n == Len(b) IN
    IF b[1] < 128 THEN 1
    ELSE IF b[1] >= 194 /\ b[1] <= 223 THEN (IF n >= 2 /\ IsCont(b[2]) THEN 2 ELSE 0)
    ELSE IF b[1] >= 224 /\ b[1] <= 239 THEN
        (IF n >= 3 /\ IsCont(b[2]) /\ IsCont(b[3]) /\ (b[1] = 224 => b[2] >= 160) /\ (b[1] = 237 => b[2] <= 159) THEN 3 ELSE 0)
    ELSE IF b[1] >= 240 /\ b[1] <= 244 THEN
        (IF n >= 4 /\ IsCont(b[2]) /\ IsCont(b[3]) /\ IsCont(b[4]) /\ (b[1] = 240 => b[2] >= 144) /\ (b[1] = 244 => b[2] <= 143) THEN 4 ELSE 0)
    ELSE 0

\* The code point of the well-formed sequence of w bytes that starts b.
Utf8CodePoint(b, w) == IF w = 1 THEN b[1] ELSE IF w = 2 THEN (b[1] - 192) * 64 + (b[2] - 128) ELSE IF w = 3 THEN (b[1] - 224) * 4096 + (b[2] - 128) * 64 + (b[3] - 128) ELSE (b[1] - 240) * 262144 + (b[2] - 128) * 4096 + (b[3] - 128) * 64 + (b[4] - 128)

RECURSIVE DecodeUtf8From(_, _)
\* The decoding loop: acc holds the characters decoded so far.
DecodeUtf8From(b, acc) == IF b = <<>> THEN Some(acc)
    ELSE Bind(Utf8Width(b), LAMBDA w :
         IF w = 0 THEN None ELSE DecodeUtf8From(DropFirst(b, w), Append(acc, Utf8CodePoint(b, w))))

\* PercentDecode::decode_utf8: Some(string), or None on bytes that are not UTF-8.
DecodeUtf8(b) == DecodeUtf8From(b, <<>>)

IsHexDigit(b) == IsAsciiDigit(b) \/ (b >= 65 /\ b <= 70) \/ (b >= 97 /\ b <= 102)

HexValue(b) == IF IsAsciiDigit(b) THEN b - 48 ELSE IF b >= 97 THEN b - 87 ELSE b - 55

RECURSIVE PercentDecode(_)
\* percent_encoding::percent_decode: %XY with two hex digits of either case
\* becomes one byte, every other byte is copied.
PercentDecode(b) == IF b = <<>> THEN <<>>
    ELSE IF b[1] = Ch("%") /\ Len(b) >= 3 /\ IsHexDigit(b[2]) /\ IsHexDigit(b[3]) THEN <<16 * HexValue(b[2]) + HexValue(b[3])>> \o PercentDecode(DropFirst(b, 3))
    ELSE <<b[1]>> \o PercentDecode(DropFirst(b, 1))

-----------------------------------------------------------------------------
(* The Identifier enum.  Every variant is a record of the same shape; only *)
(* Doi uses the prefix field.                                              *)

Doi(p, s) == [kind |-> "Doi", prefix |-> p, value |-> s]

Orcid(v) == [kind |-> "Orcid", prefix |-> <<>>, value |-> v]

Ror(v) == [kind |-> "Ror", prefix |-> <<>>, value |-> v]

Uri(v) == [kind |-> "Uri", prefix |-> <<>>, value |-> v]

String(v) == [kind |-> "String", prefix |-> <<>>, value |-> v]

Isbn(v) == [kind |-> "Isbn", prefix |-> <<>>, value |-> v]

-----------------------------------------------------------------------------
(* doi.rs *)

\* A regex literal as written in the source: an unescaped '.' is the
\* metacharacter that matches any character but a line feed.
Pattern(lit) == [i \in 1..Len(lit) |-> [any |-> lit[i] = Ch("."), ch |-> lit[i]]]

MatchesChar(p, c) == IF p.any THEN c # Uni.LineFeed ELSE p.ch = c

\* Does the pattern match at the start of s?
MatchesPrefix(s, pat) == Len(s) >= Len(pat) /\ \A i \in 1..Len(pat) : MatchesChar(pat[i], s[i])

\* URI_PREFIXES_SCHEME: the alternatives in the order of the regex.
URI_PREFIXES_SCHEME == <<Pattern(Str("https://")), Pattern(Str("http://")), Pattern(Str("doi:")), Pattern(Str("urn:doi:")), Pattern(Str("info:doi:"))>>

\* URI_PREFIXES_HOST: the alternatives in the order of the regex; the dots
\* are not escaped in the source.
URI_PREFIXES_HOST == <<Pattern(Str("dx.doi.org/")), Pattern(Str("doi.org/"))>>

\* Regex::replace(input, "") for an alternation anchored at the start: the
\* first alternative that matches is removed, once.
ReplaceFirst(alts, s) == Bind({k \in 1..Len(alts) : MatchesPrefix(s, alts[k])}, LAMBDA hits :
    IF hits = {} THEN s ELSE DropFirst(s, Len(alts[Min(hits)])))

\* The number of characters of the longest run of decimal digits of s
\* that starts at position from.
DigitRun(s, from) == Bind({j \in from..Len(s) : ~IsAsciiDigit(s[j])}, LAMBDA stops :
    IF stops = {} THEN Len(s) - from + 1 ELSE Min(stops) - from)

\* DOI_RE: ^10\.\d+(/|%2f).*
DOI_RE(s) == /\ StartsWith(s, Str("10."))
             /\ DigitRun(s, 4) >= 1
             /\ Bind(DropFirst(s, 3 + DigitRun(s, 4)), LAMBDA rest : StartsWith(rest, Str("/")) \/ StartsWith(rest, Str("%2f")))

\* DOI_STRICT_RE: ^(10\.\d+)/(.+)$
DOI_STRICT_RE(s) == /\ StartsWith(s, Str("10."))
                    /\ DigitRun(s, 4) >= 1
                    /\ Bind(DropFirst(s, 3 + DigitRun(s, 4)), LAMBDA rest :
                        /\ StartsWith(rest, Str("/"))
                        /\ Len(rest) >= 2
                        /\ \A j \in 2..Len(rest) : rest[j] # Uni.LineFeed)

UNRESERVED_CHARACTERS == {c \in 0..127 : IsAsciiLetter(c) \/ IsAsciiDigit(c)} \cup {Ch("-"), Ch("_"), Ch("."), Ch("~")}

RESERVED_CHARACTERS == {Ch("!"), Ch("$"), Ch("&"), Ch("'"), Ch("("), Ch(")"), Ch("*"), Ch(","), Ch("/"), Ch(":"), Ch(";"), Ch("="), Ch("@")}

DO_NOT_ENCODE == UNRESERVED_CHARACTERS \cup RESERVED_CHARACTERS

\* One upper-case hexadecimal digit.
UpperHex(n) == IF n < 10 THEN 48 + n ELSE 55 + n

\* write!("%{:02X}", b)
PercentByte(b) == <<Ch("%"), UpperHex(b \div 16), UpperHex(b % 16)>>

\* A faulty percent_encode_for_doi: the hexadecimal digits in lower case.
percent_encode_for_doi_lower_hex(input) == Flatten([i \in 1..Len(input) |->
    IF input[i] \in DO_NOT_ENCODE THEN <<input[i]>>
    ELSE Bind(EncodeUtf8(input[i]), LAMBDA bs : Flatten([k \in 1..Len(bs) |-> ToLowercase(PercentByte(bs[k]))]))])

percent_encode_for_doi(input) == Flatten([i \in 1..Len(input) |->
    IF input[i] \in DO_NOT_ENCODE THEN <<input[i]>>
    ELSE Bind(EncodeUtf8(input[i]), LAMBDA bs : Flatten([k \in 1..Len(bs) |-> PercentByte(bs[k])]))])

construct(decoded_raw_doi) == IF DOI_STRICT_RE(decoded_raw_doi)
    THEN Bind(3 + DigitRun(decoded_raw_doi, 4), LAMBDA n :
         Some(Doi(SubSeq(decoded_raw_doi, 1, n), ToLowercase(DropFirst(decoded_raw_doi, n + 1)))))
    ELSE None

remove_doi_prefixes(input) ==
    Bind(ReplaceFirst(URI_PREFIXES_SCHEME, input), LAMBDA no_scheme :
    Bind(ReplaceFirst(URI_PREFIXES_HOST, no_scheme), LAMBDA no_resolver :
    ReplaceFirst(URI_PREFIXES_SCHEME, no_resolver)))

\* A faulty try_parse for a DOI: bytes that are not UTF-8 are rescued, each
\* read as the character of its number.
doi_try_parse_rescued(input) ==
    Bind(ToLowercase(input.raw), LAMBDA lowercase :
    IF DOI_STRICT_RE(lowercase) THEN construct(lowercase)
    ELSE Bind(remove_doi_prefixes(lowercase), LAMBDA less_prefixes :
         IF DOI_RE(less_prefixes)
         THEN Bind(PercentDecode(AsBytes(less_prefixes)), LAMBDA bytes :
              IF IsSome(DecodeUtf8(bytes)) THEN construct(Unwrap(DecodeUtf8(bytes))) ELSE construct(bytes))
         ELSE None))

\* A faulty try_parse for a DOI: the raw form is not tried first, every
\* input is percent-decoded.
doi_try_parse_always_decoded(input) ==
    Bind(remove_doi_prefixes(ToLowercase(input.raw)), LAMBDA less_prefixes :
    IF DOI_RE(less_prefixes)
    THEN Bind(DecodeUtf8(PercentDecode(AsBytes(less_prefixes))), LAMBDA decoded :
         IF IsSome(decoded) THEN construct(Unwrap(decoded)) ELSE None)
    ELSE None)

\* doi::try_parse: reads only input.raw.
doi_try_parse(input) ==
    Bind(ToLowercase(input.raw), LAMBDA lowercase :
    IF DOI_STRICT_RE(lowercase) THEN construct(lowercase)
    ELSE Bind(remove_doi_prefixes(lowercase), LAMBDA less_prefixes :
         IF DOI_RE(less_prefixes)
         THEN Bind(DecodeUtf8(PercentDecode(AsBytes(less_prefixes))), LAMBDA decoded :
              IF IsSome(decoded) THEN construct(Unwrap(decoded)) ELSE None)
         ELSE None))

doi_to_uri(input) == IF input.kind = "Doi" THEN Some(Str("https://doi.org/") \o input.prefix \o Str("/") \o percent_encode_for_doi(input.value)) ELSE None

-----------------------------------------------------------------------------
(* http::Uri, the URI parser that IdentifierParseInput::build calls        *)
(* (Uri::from_str) and whose host(), path() and to_string() the            *)
(* recognisers read.  A parsed Uri is a record: scheme is Option<string>,  *)
(* authority a string (empty when absent), data the path-and-query text    *)
(* and query the 1-based position of '?' in data, 0 when there is none.    *)

HttpLimits == [MAX_COLONS |-> 8, MAX_SCHEME_LEN |-> 64]

\* URI_CHARS: the bytes the authority scanner accepts.
URI_CHARS == {c \in 0..127 : IsAsciiLetter(c) \/ IsAsciiDigit(c)} \cup {Ch("!"), Ch("#"), Ch("$"), Ch("&"), Ch("'"), Ch("("), Ch(")"), Ch("*"), Ch("+"), Ch(","), Ch("-"), Ch("."), Ch("/"), Ch(":"), Ch(";"), Ch("="), Ch("?"), Ch("@"), Ch("["), Ch("]"), Ch("_"), Ch("~")}

\* SCHEME_CHARS: the bytes a scheme may hold.
SCHEME_CHARS == {c \in 0..127 : IsAsciiLetter(c) \/ IsAsciiDigit(c)} \cup {Ch("+"), Ch("-"), Ch(".")}

\* The bytes PathAndQuery::from_shared accepts in a path.
PATH_CHARS == {33} \cup 36..59 \cup {61} \cup 64..95 \cup 97..122 \cup {124, 126} \cup {Ch("\""), Ch("{"), Ch("}")}

\* The bytes PathAndQuery::from_shared accepts in a query.
QUERY_CHARS == {33} \cup 36..59 \cup {61} \cup 63..126

\* [u8]::eq_ignore_ascii_case
EqIgnoreAsciiCase(a, b) == Len(a) = Len(b) /\ \A i \in 1..Len(a) : LowerChar(a[i]) = LowerChar(b[i])

\* Scheme2::None
NoScheme == [kind |-> "None", name |-> <<>>, len |-> 0]

\* Scheme2::parse: kind is "None", "Standard", "Other" or "Err"; name is the
\* scheme as Display writes it and len the length of the scheme in the input.
Scheme2Parse(s) ==
    IF Len(s) >= 7 /\ EqIgnoreAsciiCase(SubSeq(s, 1, 7), Str("http://")) THEN [kind |-> "Standard", name |-> Str("http"), len |-> 4]
    ELSE IF Len(s) >= 8 /\ EqIgnoreAsciiCase(SubSeq(s, 1, 8), Str("https://")) THEN [kind |-> "Standard", name |-> Str("https"), len |-> 5]
    ELSE Bind({j \in 1..Len(s) : s[j] \notin SCHEME_CHARS}, LAMBDA stops :
         IF Len(s) <= 3 \/ stops = {} THEN NoScheme
         ELSE Bind(Min(stops), LAMBDA j :
              IF s[j] # Ch(":") THEN NoScheme
              ELSE IF Len(s) < j + 2 THEN NoScheme
              ELSE IF SubSeq(s, j + 1, j + 2) # Str("//") THEN NoScheme
              ELSE IF j - 1 > HttpLimits.MAX_SCHEME_LEN THEN [kind |-> "Err", name |-> <<>>, len |-> 0]
              ELSE [kind |-> "Other", name |-> SubSeq(s, 1, j - 1), len |-> j - 1]))

\* The checks Authority::parse makes after its scan; end is the number of
\* bytes of the authority.
AuthorityFinish(st, end) ==
    IF st.start_bracket # st.end_bracket THEN None
    ELSE IF st.colon_cnt > 1 THEN None
    ELSE IF end > 0 /\ st.at_sign_pos = end THEN None
    ELSE IF st.has_percent THEN None
    ELSE Some(end)

RECURSIVE AuthorityScan(_, _, _)
\* The loop of Authority::parse from the byte at position i on.
AuthorityScan(s, i, st) ==
    IF i > Len(s) THEN AuthorityFinish(st, Len(s))
    ELSE LET c == s[i] IN
         IF c \in {Ch("/"), Ch("?"), Ch("#")} THEN AuthorityFinish(st, i - 1)
         ELSE IF c = Ch(":") THEN
              (IF st.colon_cnt >= HttpLimits.MAX_COLONS THEN None ELSE AuthorityScan(s, i + 1, [st EXCEPT !.colon_cnt = @ + 1]))
         ELSE IF c = Ch("[") THEN
              (IF st.has_percent \/ st.start_bracket THEN None ELSE AuthorityScan(s, i + 1, [st EXCEPT !.start_bracket = TRUE]))
         ELSE IF c = Ch("]") THEN
              (IF ~st.start_bracket \/ st.end_bracket THEN None
               ELSE AuthorityScan(s, i + 1, [st EXCEPT !.end_bracket = TRUE, !.colon_cnt = 0, !.has_percent = FALSE]))
         ELSE IF c = Ch("@") THEN AuthorityScan(s, i + 1, [st EXCEPT !.at_sign_pos = i, !.colon_cnt = 0, !.has_percent = FALSE])
         ELSE IF c = Ch("%") THEN AuthorityScan(s, i + 1, [st EXCEPT !.has_percent = TRUE])
         ELSE IF c \notin URI_CHARS THEN None
         ELSE AuthorityScan(s, i + 1, st)

\* Authority::parse: Some(length of the authority at the start of s), None on error.
AuthorityParse(s) == AuthorityScan(s, 1, [colon_cnt |-> 0, start_bracket |-> FALSE, end_bracket |-> FALSE, has_percent |-> FALSE, at_sign_pos |-> 0])

\* PathAndQuery::from_shared: Some([data, query]), None on error.  The
\* fragment is cut off and never examined.
PathAndQueryFromShared(src) ==
    Bind({j \in 1..Len(src) : src[j] \in {Ch("?"), Ch("#")} \/ src[j] \notin PATH_CHARS}, LAMBDA pstops :
    Bind(IF pstops = {} THEN Len(src) + 1 ELSE Min(pstops), LAMBDA pend :
       IF pend > Len(src) THEN Some([data |-> src, query |-> 0])
       ELSE IF src[pend] = Ch("#") THEN Some([data |-> SubSeq(src, 1, pend - 1), query |-> 0])
       ELSE IF src[pend] # Ch("?") THEN None
       ELSE Bind({j \in (pend + 1)..Len(src) : src[j] \notin QUERY_CHARS}, LAMBDA qstops :
            Bind(IF qstops = {} THEN Len(src) + 1 ELSE Min(qstops), LAMBDA qend :
               IF qend > Len(src) THEN Some([data |-> src, query |-> pend])
               ELSE IF src[qend] = Ch("#") THEN Some([data |-> SubSeq(src, 1, qend - 1), query |-> pend])
               ELSE None))))

MakeUri(scheme, authority, pq) == [scheme |-> scheme, authority |-> authority, data |-> pq.data, query |-> pq.query]

EmptyPathAndQuery == [data |-> <<>>, query |-> 0]

\* parse_full: the input is longer than one byte and does not start with '/'.
UriParseFull(s) ==
    Bind(Scheme2Parse(s), LAMBDA sch :
    IF sch.kind = "Err" THEN None
    ELSE Bind(IF sch.kind = "None" THEN s ELSE DropFirst(s, sch.len + 3), LAMBDA rest :
         Bind(AuthorityParse(rest), LAMBDA authority_end :
            IF ~IsSome(authority_end) THEN None
            ELSE IF sch.kind = "None" THEN
                 (IF Unwrap(authority_end) # Len(rest) THEN None ELSE Some(MakeUri(None, rest, EmptyPathAndQuery)))
            ELSE IF Unwrap(authority_end) = 0 THEN None
            ELSE Bind(PathAndQueryFromShared(DropFirst(rest, Unwrap(authority_end))), LAMBDA pq :
                 IF IsSome(pq) THEN Some(MakeUri(Some(sch.name), SubSeq(rest, 1, Unwrap(authority_end)), Unwrap(pq))) ELSE None))))

\* Uri::from_str: Option<Uri>.
UriFromStr(s) ==
    IF Len(s) = 0 THEN None
    ELSE IF Len(s) = 1 THEN
         (IF s = Str("/") \/ s = Str("*") THEN Some(MakeUri(None, <<>>, [data |-> s, query |-> 0]))
          ELSE IF AuthorityParse(s) = Some(1) THEN Some(MakeUri(None, s, EmptyPathAndQuery)) ELSE None)
    ELSE IF s[1] = Ch("/") THEN OptionMap(PathAndQueryFromShared(s), LAMBDA pq : MakeUri(None, <<>>, pq))
    ELSE UriParseFull(s)

\* Uri::path
UriPath(u) == IF u.data # <<>> \/ IsSome(u.scheme)
              THEN Bind(IF u.query = 0 THEN u.data ELSE SubSeq(u.data, 1, u.query - 1), LAMBDA ret : IF ret = <<>> THEN Str("/") ELSE ret)
              ELSE <<>>

\* Uri::query
UriQuery(u) == IF u.query = 0 THEN None ELSE Some(DropFirst(u.data, u.query))

\* Uri::host: the authority after its last '@', up to the closing bracket
\* of an IPv6 literal or else up to the first ':'.
UriHost(u) == IF u.authority = <<>> THEN None
              ELSE Bind({j \in 1..Len(u.authority) : u.authority[j] = Ch("@")}, LAMBDA ats :
                   Bind(IF ats = {} THEN u.authority ELSE DropFirst(u.authority, Max(ats)), LAMBDA host_port :
                   Bind({j \in 1..Len(host_port) : host_port[j] = (IF host_port[1] = Ch("[") THEN Ch("]") ELSE Ch(":"))}, LAMBDA ends :
                      IF ends = {} THEN Some(host_port)
                      ELSE IF host_port[1] = Ch("[") THEN Some(SubSeq(host_port, 1, Min(ends)))
                      ELSE Some(SubSeq(host_port, 1, Min(ends) - 1)))))

\* <Uri as Display>::fmt, which Uri::to_string uses.
UriToString(u) == (IF IsSome(u.scheme) THEN Unwrap(u.scheme) \o Str("://") ELSE <<>>)
                  \o u.authority \o UriPath(u)
                  \o Bind(UriQuery(u), LAMBDA query : IF IsSome(query) THEN Str("?") \o Unwrap(query) ELSE <<>>)

-----------------------------------------------------------------------------
(* identifiers.rs: IdentifierParseInput *)

\* IdentifierParseInput::build
build(input) == [raw |-> input, uri |-> UriFromStr(input)]

path_no_slash(self) == OptionMap(self.uri, LAMBDA uri : Bind(UriPath(uri), LAMBDA path : IF StartsWith(path, Str("/")) THEN DropFirst(path, 1) ELSE path))

path_no_slash_uppercase(self) == OptionMap(path_no_slash(self), ToUppercase)

host(self) == IF IsSome(self.uri) THEN UriHost(Unwrap(self.uri)) ELSE None

host_lowercase(self) == OptionMap(host(self), ToLowercase)

-----------------------------------------------------------------------------
(* orcid.rs *)

ORCID_HOST == Str("orcid.org")

\* ORCID_RE: ^(\d{4})-(\d{4})-(\d{4})-(\d{3})([\dX])$
ORCID_RE(s) == /\ Len(s) = 19
               /\ \A i \in {5, 10, 15} : s[i] = Ch("-")
               /\ \A i \in (1..18) \ {5, 10, 15} : IsAsciiDigit(s[i])
               /\ (IsAsciiDigit(s[19]) \/ s[19] = Ch("X"))

RECURSIVE OrcidTotal(_, _)
\* The loop of generate_check_digit: total = (total + value) * 2 over the
\* digits.  The total is a u32; over the 15 digits that ORCID_RE lets through
\* it stays below 2^20.
OrcidTotal(digits, total) == IF digits = <<>> THEN total ELSE OrcidTotal(Tail(digits), (total + (Head(digits) - 48)) * 2)

\* orcid::generate_check_digit: Option<String>
orcid_generate_check_digit(base_digits) ==
    IF \E i \in 1..Len(base_digits) : ~IsAsciiDigit(base_digits[i]) THEN None
    ELSE Bind(OrcidTotal(base_digits, 0) % 11, LAMBDA remainder :
         Bind((12 - remainder) % 11, LAMBDA result :
         Some(IF result = 10 THEN Str("X") ELSE <<48 + result>>)))

\* orcid::validate_check_digit
orcid_validate_check_digit(orcid_id) ==
    IF ORCID_RE(orcid_id)
    THEN LET digits == SubSeq(orcid_id, 1, 4) \o SubSeq(orcid_id, 6, 9) \o SubSeq(orcid_id, 11, 14) \o SubSeq(orcid_id, 16, 18)
             check == SubSeq(orcid_id, 19, 19)
         IN orcid_generate_check_digit(digits) = Some(check)
    ELSE FALSE

\* A faulty try_parse for an ORCID: the path is matched in the case it came in.
orcid_try_parse_case_preserved(input) ==
    Bind(path_no_slash(input), LAMBDA maybe_path :
    IF IsSome(maybe_path)
    THEN (IF host_lowercase(input) = Some(ORCID_HOST)
          THEN (IF orcid_validate_check_digit(Unwrap(maybe_path)) THEN Some(Orcid(Unwrap(maybe_path))) ELSE None)
          ELSE None)
    ELSE None)

orcid_try_parse(input) ==
    Bind(path_no_slash_uppercase(input), LAMBDA maybe_path :
    IF IsSome(maybe_path)
    THEN (IF host_lowercase(input) = Some(ORCID_HOST)
          THEN (IF orcid_validate_check_digit(Unwrap(maybe_path)) THEN Some(Orcid(Unwrap(maybe_path))) ELSE None)
          ELSE None)
    ELSE None)

orcid_to_uri(input) == IF input.kind = "Orcid" THEN Some(Str("https://orcid.org/") \o input.value) ELSE None

\* A faulty stable string for an ORCID: the bare iD, without the resolver.
orcid_to_stable_string_bare(input) == IF input.kind = "Orcid" THEN Some(input.value) ELSE None

orcid_to_stable_string(input) == orcid_to_uri(input)

-----------------------------------------------------------------------------
(* isbn.rs *)

TEN_DIGIT_WEIGHTS == <<10, 9, 8, 7, 6, 5, 4, 3, 2, 1>>

THIRTEEN_DIGIT_WEIGHTS == <<1, 3, 1, 3, 1, 3, 1, 3, 1, 3, 1, 3, 1>>

\* Iterator::sum over a sequence of naturals.
RECURSIVE Sum(_)
Sum(xs) == IF xs = <<>> THEN 0 ELSE Head(xs) + Sum(Tail(xs))

\* The characters of s that satisfy keep, in order.
RECURSIVE Filter(_, _)
Filter(s, keep) == IF s = <<>> THEN <<>> ELSE (IF Head(s) \in keep THEN <<Head(s)>> ELSE <<>>) \o Filter(Tail(s), keep)

IsbnDigitChars == {c \in 0..127 : IsAsciiDigit(c)} \cup {Ch("X"), Ch("x")}

\* A faulty str_to_digits: a hyphen is a bad character.
str_to_digits_no_hyphen(input) ==
    IF \E i \in 1..Len(input) : input[i] \notin IsbnDigitChars \cup {Ch(" ")} THEN None
    ELSE Bind(Filter(input, IsbnDigitChars), LAMBDA kept : Some([i \in 1..Len(kept) |-> IF IsAsciiDigit(kept[i]) THEN kept[i] - 48 ELSE 10]))

\* str_to_digits: Option<Vec<u32>>
str_to_digits(input) ==
    IF \E i \in 1..Len(input) : input[i] \notin IsbnDigitChars \cup {Ch(" "), Ch("-")} THEN None
    ELSE Bind(Filter(input, IsbnDigitChars), LAMBDA kept : Some([i \in 1..Len(kept) |-> IF IsAsciiDigit(kept[i]) THEN kept[i] - 48 ELSE 10]))

\* digits_to_str: a value above 10 is dropped.
digits_to_str(input) == Flatten([i \in 1..Len(input) |-> IF input[i] <= 9 THEN <<48 + input[i]>> ELSE IF input[i] = 10 THEN Str("X") ELSE <<>>])

generate_10_digit_checksum(digits) == 11 - (Sum([i \in 1..9 |-> digits[i] * TEN_DIGIT_WEIGHTS[i]]) % 11)

validate_10_digit(digits) == IF Len(digits) # 10 THEN FALSE ELSE generate_10_digit_checksum(digits) = digits[10]

generate_13_digit_checksum(digits) == 10 - (Sum([i \in 1..12 |-> digits[i] * THIRTEEN_DIGIT_WEIGHTS[i]]) % 10)

validate_13_digit(digits) == IF Len(digits) # 13 THEN FALSE ELSE generate_13_digit_checksum(digits) = digits[13]

ten_digit_to_thirteen_digit(digits) == Bind(<<9, 7, 8>> \o SubSeq(digits, 1, 9), LAMBDA new_isbn : new_isbn \o <<generate_13_digit_checksum(new_isbn)>>)

isbn_try_parse(input) ==
    Bind(ToUppercase(input.raw), LAMBDA upcase :
    Bind(IF StartsWith(upcase, Str("URN:ISBN:")) THEN DropFirst(upcase, 9) ELSE input.raw, LAMBDA less_prefix :
    Bind(str_to_digits(less_prefix), LAMBDA maybe_digits :
       IF IsSome(maybe_digits)
       THEN (IF validate_10_digit(Unwrap(maybe_digits)) THEN Some(Isbn(digits_to_str(ten_digit_to_thirteen_digit(Unwrap(maybe_digits)))))
             ELSE IF validate_13_digit(Unwrap(maybe_digits)) THEN Some(Isbn(digits_to_str(Unwrap(maybe_digits))))
             ELSE None)
       ELSE None)))

\* A faulty to_uri for an ISBN: never a URI.
isbn_to_uri_absent(input) == None

isbn_to_uri(input) == IF input.kind = "Isbn" THEN Some(Str("urn:isbn:") \o input.value) ELSE None

isbn_to_stable_string(input) == IF input.kind = "Isbn" THEN Some(input.value) ELSE None

-----------------------------------------------------------------------------
(* ror.rs *)

ROR_HOST == Str("ror.org")

\* The alphabet of BASE_32_DECODE; a character's value is its position less one.
BASE_32_ALPHABET == Str("0123456789abcdefghjkmnpqrstvwxyz")

\* The character class [a-hj-km-np-tv-z|0-9] of PATH_RE.
RorClass == {c \in 0..127 : IsAsciiDigit(c) \/ (IsAsciiLower(c) /\ c \notin {Ch("i"), Ch("l"), Ch("o"), Ch("u")})} \cup {Ch("|")}

\* PATH_RE: ^(0[a-hj-km-np-tv-z|0-9]{6})([0-9]{2})$
PATH_RE(s) == /\ Len(s) = 9
              /\ s[1] = Ch("0")
              /\ \A i \in 2..7 : s[i] \in RorClass
              /\ \A i \in 8..9 : IsAsciiDigit(s[i])

\* BASE_32_DECODE.get(&c).unwrap_or(&0)
Base32Value(c) == Bind({i \in 1..Len(BASE_32_ALPHABET) : BASE_32_ALPHABET[i] = c}, LAMBDA hits : IF hits = {} THEN 0 ELSE Min(hits) - 1)

RECURSIVE Base32Fold(_, _)
\* The fold of expected_check_digit.  The accumulator is a u64; over the 7
\* characters that PATH_RE lets through, the first of them 0, it stays below 2^30.
Base32Fold(s, acc) == IF s = <<>> THEN acc ELSE Base32Fold(Tail(s), acc * 32 + Base32Value(Head(s)))

\* (a * b) % m for a product that fits a u64, computed without forming it.
MulMod(a, b, m) == ((a % m) * b) % m

expected_check_digit(identifier) == 98 - MulMod(Base32Fold(identifier, 0), 100, 97)

\* A faulty validate_check_digit for a ROR: the path is lower-cased first.
ror_validate_check_digit_any_case(path) ==
    Bind(ToLowercase(path), LAMBDA lowered :
    IF PATH_RE(lowered)
    THEN expected_check_digit(SubSeq(lowered, 1, 7)) = (lowered[8] - 48) * 10 + (lowered[9] - 48)
    ELSE FALSE)

\* ror::validate_check_digit
ror_validate_check_digit(path) ==
    IF PATH_RE(path)
    THEN LET identifier == SubSeq(path, 1, 7)
             check_digit_value == (path[8] - 48) * 10 + (path[9] - 48)
         IN expected_check_digit(identifier) = check_digit_value
    ELSE FALSE

ror_try_parse(input) ==
    Bind(host_lowercase(input), LAMBDA maybe_host :
    IF IsSome(maybe_host)
    THEN (IF Unwrap(maybe_host) = ROR_HOST
          THEN Bind(path_no_slash(input), LAMBDA maybe_path :
               IF IsSome(maybe_path)
               THEN (IF ror_validate_check_digit(Unwrap(maybe_path)) THEN Some(Ror(Unwrap(maybe_path))) ELSE None)
               ELSE None)
          ELSE None)
    ELSE None)

ror_to_uri(input) == IF input.kind = "Ror" THEN Some(Str("https://ror.org/") \o input.value) ELSE None

-----------------------------------------------------------------------------
(* uri.rs *)

uri_try_parse(input) == IF IsSome(input.uri) THEN Some(Uri(UriToString(Unwrap(input.uri)))) ELSE None

uri_to_uri(input) == IF input.kind = "Uri" THEN Some(input.value) ELSE None

uri_to_stable_string(input) == uri_to_uri(input)

-----------------------------------------------------------------------------
(* identifiers.rs: the dispatcher and the codec *)

\* doi::to_stable_string: the stable string of a DOI is its URI form.
doi_to_stable_string(input) == doi_to_uri(input)

\* ror::to_stable_string: https://ror.org/<code>.
ror_to_stable_string(input) == ror_to_uri(input)

\* A faulty order of the recognisers: the generic URI before the others.
PARSERS_uri_first == <<"uri", "doi", "orcid", "isbn", "ror">>

\* PARSERS: the recognisers in order of precedence.
PARSERS == <<"doi", "orcid", "isbn", "ror", "uri">>

\* The call parser(&parse_input) of one entry of PARSERS.
RunParser(parser, input) ==
    CASE parser = "doi" -> doi_try_parse(input)
      [] parser = "orcid" -> orcid_try_parse(input)
      [] parser = "isbn" -> isbn_try_parse(input)
      [] parser = "ror" -> ror_try_parse(input)
      [] parser = "uri" -> uri_try_parse(input)

RECURSIVE FirstSome(_, _)
\* The loop of parse: the result of the first parser of the list that
\* returns Some, None when the list is exhausted.
FirstSome(parsers, parse_input) ==
    IF parsers = <<>> THEN None
    ELSE Bind(RunParser(Head(parsers), parse_input), LAMBDA result :
         IF IsSome(result) THEN result ELSE FirstSome(Tail(parsers), parse_input))

\* Identifier::parse
parse(input) == Bind(FirstSome(PARSERS, build(input)), LAMBDA result : IF IsSome(result) THEN Unwrap(result) ELSE String(input))

\* Identifier::to_uri
to_uri(self) ==
    CASE self.kind = "Doi" -> doi_to_uri(self)
      [] self.kind = "Orcid" -> orcid_to_uri(self)
      [] self.kind = "Uri" -> Some(self.value)
      [] self.kind = "String" -> None
      [] self.kind = "Isbn" -> isbn_to_uri(self)
      [] self.kind = "Ror" -> ror_to_uri(self)

\* format!("{:?}", self), the fall-back of the codec.
DebugFormat(self) == IF self.kind = "Doi"
                     THEN Str("Doi { prefix: \"") \o self.prefix \o Str("\", suffix: \"") \o self.value \o Str("\" }")
                     ELSE Str(self.kind) \o Str("(\"") \o self.value \o Str("\")")

\* The match of to_stable_string and to_id_string_pair: the stable string of
\* each variant, Option<String>.
StableOf(self) ==
    CASE self.kind = "Doi" -> doi_to_stable_string(self)
      [] self.kind = "Orcid" -> orcid_to_stable_string(self)
      [] self.kind = "Uri" -> uri_to_stable_string(self)
      [] self.kind = "String" -> Some(self.value)
      [] self.kind = "Isbn" -> isbn_to_stable_string(self)
      [] self.kind = "Ror" -> ror_to_stable_string(self)

\* Identifier::to_stable_string
to_stable_string(self) == Bind(StableOf(self), LAMBDA maybe_string : IF IsSome(maybe_string) THEN Unwrap(maybe_string) ELSE DebugFormat(self))

\* A faulty table of type ids: those of Ror and Uri exchanged.
TypeIdOf_ror_uri_exchanged(self) ==
    CASE self.kind = "Doi" -> 1
      [] self.kind = "Orcid" -> 2
      [] self.kind = "Ror" -> 4
      [] self.kind = "Uri" -> 3
      [] self.kind = "String" -> 5
      [] self.kind = "Isbn" -> 6

\* The type id that to_id_string_pair writes beside each variant.
TypeIdOf(self) ==
    CASE self.kind = "Doi" -> 1
      [] self.kind = "Orcid" -> 2
      [] self.kind = "Ror" -> 3
      [] self.kind = "Uri" -> 4
      [] self.kind = "String" -> 5
      [] self.kind = "Isbn" -> 6

\* Identifier::to_id_string_pair: <<string, type id>>
to_id_string_pair(self) == Bind(StableOf(self), LAMBDA maybe_result : IF IsSome(maybe_result) THEN <<Unwrap(maybe_result), TypeIdOf(self)>> ELSE <<DebugFormat(self), 5>>)

\* A faulty from_id_string_pair: an unknown type id yields a String.
from_id_string_pair_lenient(input_str, type_id) ==
    IF type_id \in {1, 2, 3, 4, 6} THEN RunParser(<<"doi", "orcid", "ror", "uri", "", "isbn">>[type_id], build(input_str))
    ELSE Some(String(input_str))

\* Identifier::from_id_string_pair: Option<Identifier>
from_id_string_pair(input_str, type_id) ==
    Bind(build(input_str), LAMBDA parse_input :
    CASE type_id = 1 -> doi_try_parse(parse_input)
      [] type_id = 2 -> orcid_try_parse(parse_input)
      [] type_id = 3 -> ror_try_parse(parse_input)
      [] type_id = 4 -> uri_try_parse(parse_input)
      [] type_id = 5 -> Some(String(input_str))
      [] type_id = 6 -> isbn_try_parse(parse_input)
      [] OTHER -> None)

-----------------------------------------------------------------------------
(* Run-time failure of the check-digit routines: an index beyond the end   *)
(* of a slice, an unsigned subtraction below zero, a sum or product beyond *)
(* the width of its integer type.  Each predicate follows its routine and  *)
(* is true when the routine fails on the given argument.                   *)

\* u32::BITS
U32_BITS == 32

\* u64::BITS
U64_BITS == 64

RECURSIVE BitLen(_)
\* The number of bits of a natural number.
BitLen(n) == IF n = 0 THEN 0 ELSE 1 + BitLen(n \div 2)

\* Does n fit a u32?
FitsU32(n) == BitLen(n) <= U32_BITS

\* A faulty loop for generate_13_digit_checksum: all 13 places are summed.
generate_13_digit_checksum_fails_all_places(digits) ==
    \/ Len(digits) < 13
    \/ \E n \in 1..13 : ~FitsU32(Sum([i \in 1..n |-> digits[i] * THIRTEEN_DIGIT_WEIGHTS[i]]))

\* generate_10_digit_checksum: digits[i] and TEN_DIGIT_WEIGHTS[i] for i in
\* 0..9, the products and their running sum in u32, then 11 - (sum % 11).
generate_10_digit_checksum_fails(digits) ==
    \/ Len(digits) < 9
    \/ Len(TEN_DIGIT_WEIGHTS) < 9
    \/ \E n \in 1..9 : ~FitsU32(digits[n] * TEN_DIGIT_WEIGHTS[n]) \/ ~FitsU32(Sum([i \in 1..n |-> digits[i] * TEN_DIGIT_WEIGHTS[i]]))
    \/ 11 < Sum([i \in 1..9 |-> digits[i] * TEN_DIGIT_WEIGHTS[i]]) % 11

\* validate_10_digit: digits[9] is read once the length is known to be 10.
validate_10_digit_fails(digits) == Len(digits) = 10 /\ generate_10_digit_checksum_fails(digits)

\* generate_13_digit_checksum: digits[i] and THIRTEEN_DIGIT_WEIGHTS[i] for i
\* in 0..12, the products and their running sum in u32, then 10 - (sum % 10).
generate_13_digit_checksum_fails(digits) ==
    \/ Len(digits) < 12
    \/ Len(THIRTEEN_DIGIT_WEIGHTS) < 12
    \/ \E n \in 1..12 : ~FitsU32(digits[n] * THIRTEEN_DIGIT_WEIGHTS[n]) \/ ~FitsU32(Sum([i \in 1..n |-> digits[i] * THIRTEEN_DIGIT_WEIGHTS[i]]))
    \/ 10 < Sum([i \in 1..12 |-> digits[i] * THIRTEEN_DIGIT_WEIGHTS[i]]) % 10

\* validate_13_digit: digits[12] is read once the length is known to be 13.
validate_13_digit_fails(digits) == Len(digits) = 13 /\ generate_13_digit_checksum_fails(digits)

\* ten_digit_to_thirteen_digit: the checksum of 9, 7, 8 and the first nine
\* digits at most.
ten_digit_to_thirteen_digit_fails(digits) == generate_13_digit_checksum_fails(<<9, 7, 8>> \o SubSeq(digits, 1, Min({9, Len(digits)})))

\* isbn::try_parse
isbn_try_parse_fails(input) ==
    Bind(ToUppercase(input.raw), LAMBDA upcase :
    Bind(str_to_digits(IF StartsWith(upcase, Str("URN:ISBN:")) THEN DropFirst(upcase, 9) ELSE input.raw), LAMBDA maybe_digits :
       /\ IsSome(maybe_digits)
       /\ \/ validate_10_digit_fails(Unwrap(maybe_digits))
          \/ IF validate_10_digit(Unwrap(maybe_digits)) THEN ten_digit_to_thirteen_digit_fails(Unwrap(maybe_digits))
             ELSE validate_13_digit_fails(Unwrap(maybe_digits))))

\* orcid::generate_check_digit: total = (total + value) * 2 in u32 for every
\* character up to the first that is no digit, then 12 - remainder.
orcid_generate_check_digit_fails(base_digits) ==
    \/ \E n \in 1..Len(base_digits) :
          /\ \A k \in 1..n : IsAsciiDigit(base_digits[k])
          /\ ~FitsU32(OrcidTotal(SubSeq(base_digits, 1, n), 0))
    \/ /\ \A k \in 1..Len(base_digits) : IsAsciiDigit(base_digits[k])
       /\ 12 < OrcidTotal(base_digits, 0) % 11

\* orcid::validate_check_digit: the five groups of a match are all present.
orcid_validate_check_digit_fails(orcid_id) ==
    /\ ORCID_RE(orcid_id)
    /\ orcid_generate_check_digit_fails(SubSeq(orcid_id, 1, 4) \o SubSeq(orcid_id, 6, 9) \o SubSeq(orcid_id, 11, 14) \o SubSeq(orcid_id, 16, 18))

\* orcid::try_parse
orcid_try_parse_fails(input) ==
    Bind(path_no_slash_uppercase(input), LAMBDA maybe_path :
        /\ IsSome(maybe_path)
        /\ host_lowercase(input) = Some(ORCID_HOST)
        /\ orcid_validate_check_digit_fails(Unwrap(maybe_path)))

\* ror::expected_check_digit: (acc * 32) + value in u64 at every step of the
\* fold, parsed * 100 in u64, then 98 - (... % 97).  A product is taken to
\* fit when the bits of its factors together do.
expected_check_digit_fails(identifier) ==
    \/ \E n \in 0..(Len(identifier) - 1) : BitLen(Base32Fold(SubSeq(identifier, 1, n), 0)) + BitLen(32) > U64_BITS
    \/ BitLen(Base32Fold(identifier, 0)) + BitLen(100) > U64_BITS
    \/ 98 < MulMod(Base32Fold(identifier, 0), 100, 97)

\* ror::validate_check_digit: both groups of a match are present, and the
\* two check digits always parse as a u64.
ror_validate_check_digit_fails(path) == PATH_RE(path) /\ expected_check_digit_fails(SubSeq(path, 1, 7))

\* ror::try_parse
ror_try_parse_fails(input) ==
    Bind(path_no_slash(input), LAMBDA maybe_path :
        /\ host_lowercase(input) = Some(ROR_HOST)
        /\ IsSome(maybe_path)
        /\ ror_validate_check_digit_fails(Unwrap(maybe_path)))

\* The call parser(&parse_input) of one entry of PARSERS fails.
RunParserFails(parser, input) ==
    CASE parser = "orcid" -> orcid_try_parse_fails(input)
      [] parser = "isbn" -> isbn_try_parse_fails(input)
      [] parser = "ror" -> ror_try_parse_fails(input)
      [] OTHER -> FALSE

\* Identifier::parse fails: a parser of the list fails, and those before it
\* have all returned None.
parse_fails(input) ==
    Bind(build(input), LAMBDA parse_input :
        \E k \in 1..Len(PARSERS) :
            /\ \A j \in 1..(k - 1) : ~IsSome(RunParser(PARSERS[j], parse_input))
            /\ RunParserFails(PARSERS[k], parse_input))

-----------------------------------------------------------------------------
(* The inputs of the model *)

\* The longest free tail appended to a head.
MaxTail == 2

\* The largest type id a caller hands to from_id_string_pair.
MaxTypeId == 7

\* The characters of the free tail.
TailChars == {Ch("a"), Ch("A"), Ch("/"), Ch("%"), Ch("?"), Ch("#"), Ch("0"), Ch("X"), Uni.CapitalSigma}

\* The strings over TailChars of length at most MaxTail.
Tails == UNION {[1..n -> TailChars] : n \in 0..MaxTail}

\* The heads: raw identifiers, resolver URLs and landing pages of the kinds
\* the recognisers know, valid and invalid, complete and cut short.
Heads == {
    <<>>,
    Str("10.5/"), Str("10.5"), Str("10.5%2f"), Str("doi:10.5/"), Str("DOI:10.5555/12345678"),
    Str("https://doi.org/10.5/"), Str("HTTP://DX.DOI.ORG/10.5/"), Str("doi.org/10.5/"),
    Str("https://doi.org/10.5/%ff"), Str("https://doi.org/10.5/%22%3C"), Str("https://doi.org/10.5/%61"),
    Str("https://doi.org/10.5/a#%f"),
    Str("doi:10.5/%ff"), Str("HTTP://DX.DOI.ORG/10.5/%C3"), Str("10.5/%61"), Str("10.5/a") \o <<Uni.LineFeed>>,
    Str("https://doi-org/10.5/"), Str("https://www.doi.org/10.5/"),
    Str("https://example.com/?id=10.5/"), Str("https://example.com/10.5/"),
    Str("https://"), Str("https://10.5"), Str("https://example.com"), Str("ftp://example.com/"),
    Str("https://orcid.org/0000-0002-1694-233"), Str("HTTPS://ORCID.ORG/0000-0002-1694-233"),
    Str("https://orcid.org/0000-0001-5109-370"),
    Str("030640615"), Str("080442957"), Str("9780306406157"), Str("urn:isbn:030640615"), Str("0-306-40615-"),
    Str("https://ror.org/02twcfp32"), Str("https://ror.org/02twcfp3"), Str("https://ROR.org/02mhbdp94"),
    Str("hello "), Str("hello")
}

Inputs == {h \o t : h \in Heads, t \in Tails}

-----------------------------------------------------------------------------
(* The state machine: one input, parsed, encoded by the codec and decoded  *)
(* again, or handed to from_id_string_pair as a stored pair.               *)

NoOutput == [op |-> "none", str |-> None, type_id |-> 0]

Init == /\ raw \in Inputs
        /\ pc = "start"
        /\ id = None
        /\ out = NoOutput
        /\ back = None

\* Identifier::parse(raw)
Parse == /\ pc = "start"
         /\ id' = Some(parse(raw))
         /\ pc' = "parsed"
         /\ UNCHANGED <<raw, out, back>>

\* id.to_uri()
ToUri == /\ pc = "parsed"
         /\ out' = [op |-> "to_uri", str |-> to_uri(Unwrap(id)), type_id |-> 0]
         /\ pc' = "encoded"
         /\ UNCHANGED <<raw, id, back>>

\* id.to_stable_string()
ToStableString == /\ pc = "parsed"
                  /\ out' = [op |-> "to_stable_string", str |-> Some(to_stable_string(Unwrap(id))), type_id |-> 0]
                  /\ pc' = "encoded"
                  /\ UNCHANGED <<raw, id, back>>

\* id.to_id_string_pair()
ToIdStringPair == /\ pc = "parsed"
                  /\ out' = Bind(to_id_string_pair(Unwrap(id)), LAMBDA pair : [op |-> "to_id_string_pair", str |-> Some(pair[1]), type_id |-> pair[2]])
                  /\ pc' = "encoded"
                  /\ UNCHANGED <<raw, id, back>>

\* Identifier::parse of the string that to_uri or to_stable_string returned
ParseOutput == /\ pc = "encoded"
               /\ out.op \in {"to_uri", "to_stable_string"}
               /\ IsSome(out.str)
               /\ back' = Some(parse(Unwrap(out.str)))
               /\ pc' = "decoded"
               /\ UNCHANGED <<raw, id, out>>

\* Identifier::from_id_string_pair of the pair that to_id_string_pair returned
FromIdStringPair == /\ pc = "encoded"
                    /\ out.op = "to_id_string_pair"
                    /\ back' = from_id_string_pair(Unwrap(out.str), out.type_id)
                    /\ pc' = "decoded"
                    /\ UNCHANGED <<raw, id, out>>

\* Identifier::from_id_string_pair of a stored pair: the input with any type id
FromStoredPair == /\ pc = "start"
                  /\ \E t \in 0..MaxTypeId :
                        /\ out' = [op |-> "stored_pair", str |-> Some(raw), type_id |-> t]
                        /\ back' = from_id_string_pair(raw, t)
                  /\ pc' = "decoded"
                  /\ UNCHANGED <<raw, id>>

Next == \/ Parse
        \/ ToUri
        \/ ToStableString
        \/ ToIdStringPair
        \/ ParseOutput
        \/ FromIdStringPair
        \/ FromStoredPair

Spec == Init /\ [][Next]_vars

-----------------------------------------------------------------------------
(* The inputs of the check-digit properties: candidates that agree with a  *)
(* complete identifier but for their final characters, and the separated   *)
(* and labelled forms of the ISBNs.                                        *)

\* The number of final characters of an ISBN candidate drawn freely.
IsbnFree == 1

\* The number of final characters of an ORCID candidate drawn freely.
OrcidFree == 1

\* The number of final digits of a ROR candidate drawn freely.
RorFree == 2

\* The largest number of separators inserted into an ISBN.
MaxSeparators == 2

\* The decimal digits.
DigitChars == {c \in 0..127 : IsAsciiDigit(c)}

\* The strings that agree with stem but for its last free characters, which
\* are drawn from chars.
Candidates(stem, free, chars) == {SubSeq(stem, 1, Len(stem) - free) \o t : t \in [1..free -> chars]}

\* ISBNs of 10 and of 13 characters: with the check characters 2, 0, 4 and X,
\* with an X among the first nine, and with the check digits 7 and 0.
IsbnStems == {Str("0306406152"), Str("0306406160"), Str("0306406144"), Str("080442957X"), Str("03064061X3"), Str("9780306406157"), Str("9780306406140")}

IsbnCandidates == UNION {Candidates(stem, IsbnFree, IsbnDigitChars) : stem \in IsbnStems}

\* The labels an ISBN is written behind.
IsbnLabels == {<<>>, Str("urn:isbn:"), Str("URN:ISBN:"), Str("Urn:Isbn:")}

\* The separators an ISBN is written with.
IsbnSeparators == {Ch(" "), Ch("-")}

\* d with one separator inserted before the character at position gap
\* (after the last character when gap is Len(d) + 1).
InsertAt(d, gap, sep) == SubSeq(d, 1, gap - 1) \o <<sep>> \o SubSeq(d, gap, Len(d))

RECURSIVE Separated(_, _)
\* The forms of d with at most n separators inserted, at any positions.
Separated(d, n) ==
    IF n = 0 THEN {d}
    ELSE Bind(Separated(d, n - 1), LAMBDA fewer :
         fewer \cup {InsertAt(f, gap, sep) : f \in {g \in fewer : Len(g) = Len(d) + n - 1}, gap \in 1..(Len(d) + n), sep \in IsbnSeparators})

\* The ISBNs that are written with separators and labels.
IsbnWritten == {Str("0306406152"), Str("0306406153"), Str("080442957x"), Str("9780306406157")}

IsbnSeparatedInputs == {label \o s : label \in IsbnLabels, s \in UNION {Separated(d, MaxSeparators) : d \in IsbnWritten}}

\* ORCID URLs: valid iDs with the check characters X, 0 and 7, on the
\* resolver in both cases and on another host, one off the shape, and one
\* with user information before the host.
OrcidStems == {
    Str("https://10.5%2fa@orcid.org/0000-0002-1694-233X"),
    Str("https://orcid.org/0000-0002-1694-233X"), Str("HTTPS://ORCID.ORG/0000-0002-1694-233X"),
    Str("https://orcid.org/0000-0001-5109-3700"), Str("https://orcid.org/0000-0002-1825-0097"),
    Str("https://example.org/0000-0002-1694-233X"), Str("https://orcid.org/0000-0002-16940-233X")
}

OrcidCandidates == UNION {Candidates(stem, OrcidFree, IsbnDigitChars) : stem \in OrcidStems}

\* ROR URLs: registered codes, codes of the shape with every character class
\* of PATH_RE, codes off the shape, and one with user information before
\* the host.
RorStems == {
    Str("https://10.5%2fa@ror.org/02twcfp32"),
    Str("https://ror.org/02twcfp32"), Str("https://ror.org/02mhbdp94"), Str("https://ROR.ORG/02mhbdp94"),
    Str("https://ror.org/000000098"), Str("https://ror.org/0|0000098"), Str("https://ror.org/0z|9a0k00"),
    Str("https://ror.org/02twcfP32"), Str("https://ror.org/02twcio32"), Str("https://ror.org/12twcfp32"),
    Str("https://example.org/02twcfp32")
}

RorCandidates == UNION {Candidates(stem, RorFree, DigitChars) : stem \in RorStems}

ChecksumInputs == IsbnCandidates \cup IsbnSeparatedInputs \cup OrcidCandidates \cup RorCandidates

ChecksumInit == /\ raw \in ChecksumInputs
                /\ pc = "start"
                /\ id = None
                /\ out = NoOutput
                /\ back = None

ChecksumSpec == ChecksumInit /\ [][Next]_vars

-----------------------------------------------------------------------------
(* The properties of the round trips, the dispatcher and the codec *)

\* C1: URI round trip.  For every input x with id = parse(x), when to_uri(id)
\* returns a string u, parse(u) equals id.
C1_UriRoundTrip == (pc = "decoded" /\ out.op = "to_uri") => back = id

\* C2: stable-string round trip.  For every identifier id that parse
\* returns, parse(to_stable_string(id)) equals id: same kind, same payload.
C2_StableStringRoundTrip == (pc = "decoded" /\ out.op = "to_stable_string") => back = id

\* C3: tagged-pair round trip.  For every identifier id that parse returns,
\* with (s, t) = to_id_string_pair(id), from_id_string_pair(s, t) is present
\* and equals id.
C3_TaggedPairRoundTrip == (pc = "decoded" /\ out.op = "to_id_string_pair") => back = id

\* A valid ORCID iD has gone through the pair and come back.
C3_Witness == pc = "decoded" /\ out.op = "to_id_string_pair" /\ out.type_id = 2 /\ IsSome(back) /\ Unwrap(back).kind = "Orcid"

\* The result the precedence DOI, ORCID, ISBN, ROR, generic URI gives for a
\* parse input, and the String of the raw input when all five decline.
C4_FirstAccepting(input) ==
    Bind(doi_try_parse(input), LAMBDA as_doi : IF IsSome(as_doi) THEN Unwrap(as_doi) ELSE
    Bind(orcid_try_parse(input), LAMBDA as_orcid : IF IsSome(as_orcid) THEN Unwrap(as_orcid) ELSE
    Bind(isbn_try_parse(input), LAMBDA as_isbn : IF IsSome(as_isbn) THEN Unwrap(as_isbn) ELSE
    Bind(ror_try_parse(input), LAMBDA as_ror : IF IsSome(as_ror) THEN Unwrap(as_ror) ELSE
    Bind(uri_try_parse(input), LAMBDA as_uri : IF IsSome(as_uri) THEN Unwrap(as_uri) ELSE String(input.raw))))))

\* C4: parse is total and first-match.  For every input, parse returns the
\* result of the first recogniser that accepts, in the order DOI, ORCID, ISBN,
\* ROR, generic URI, and the String of the raw input when all five decline.
C4_ParseFirstMatch == pc = "parsed" => id = Some(C4_FirstAccepting(build(raw)))

\* An input that both the DOI recogniser and the generic URI recogniser
\* accept has been parsed, as a DOI.
C4_Witness == pc = "parsed" /\ Unwrap(id).kind = "Doi" /\ IsSome(uri_try_parse(build(raw)))

\* The kinds in the order of their tags 1..6.
C5_KindOfTag == <<"Doi", "Orcid", "Ror", "Uri", "String", "Isbn">>

\* C5: the kind-tag table is the same in both directions.  to_id_string_pair
\* tags Doi 1, Orcid 2, Ror 3, Uri 4, String 5 and Isbn 6, and whenever
\* from_id_string_pair(s, t) returns an identifier for t in 1..6, it is of
\* the kind of t.
C5_KindTagTable ==
    /\ out.op = "to_id_string_pair" => out.type_id \in 1..6 /\ C5_KindOfTag[out.type_id] = Unwrap(id).kind
    /\ (pc = "decoded" /\ out.op \in {"to_id_string_pair", "stored_pair"} /\ out.type_id \in 1..6 /\ IsSome(back))
          => Unwrap(back).kind = C5_KindOfTag[out.type_id]

\* A ROR id has been tagged 3, and the pair has been read back as a Ror.
C5_Witness == pc = "decoded" /\ out.op = "to_id_string_pair" /\ out.type_id = 3 /\ IsSome(back) /\ Unwrap(back).kind = "Ror"

\* C6: from_id_string_pair returns None for every type id outside 1..6,
\* whatever the string, and for type id 5 the String of the given string,
\* verbatim.
C6_UnknownTagAndStringTag ==
    (pc = "decoded" /\ out.op \in {"to_id_string_pair", "stored_pair"}) =>
        /\ out.type_id \notin 1..6 => back = None
        /\ out.type_id = 5 => back = Some(String(Unwrap(out.str)))

\* A string that parses as a DOI has been read with a type id above 6.
C6_Witness == pc = "decoded" /\ out.op = "stored_pair" /\ out.type_id > 6 /\ back = None /\ parse(raw).kind = "Doi"

\* C7 as amended: to_uri returns a string for every identifier of kind Doi,
\* Orcid, Ror, Uri and Isbn, for an Isbn the URN urn:isbn:<13 characters>, and
\* None only for the kind String.
C7_ToUriPresence ==
    out.op = "to_uri" =>
        /\ IsSome(out.str) <=> Unwrap(id).kind # "String"
        /\ Unwrap(id).kind = "Isbn" => out.str = Some(Str("urn:isbn:") \o Unwrap(id).value)

\* to_uri has returned the URN of an ISBN.
C7_Witness == out.op = "to_uri" /\ Unwrap(id).kind = "Isbn" /\ IsSome(out.str)

\* C7 as stated: to_uri returns a string for the kinds Doi, Orcid, Ror and
\* Uri, and None for the kinds String and Isbn.
C7_AsStated == out.op = "to_uri" => (IsSome(out.str) <=> Unwrap(id).kind \in {"Doi", "Orcid", "Ror", "Uri"})

\* The lower-case counterpart of each character, one for one.
C8_SimpleLowercase(s) == [i \in 1..Len(s) |-> IF s[i] = Uni.CapitalSigma THEN Uni.SmallSigma ELSE LowerChar(s[i])]

\* C8: DOI recognition is case-insensitive.  When parse recognises an input
\* as a DOI, it recognises the inputs that differ from it only in the case of
\* their letters (here its upper-case and its lower-case form) as an equal
\* DOI, and the suffix of every DOI that parse returns is lower case.
C8_DoiCaseInsensitive ==
    (pc = "parsed" /\ Unwrap(id).kind = "Doi") =>
        /\ \A variant \in {ToUppercase(raw), C8_SimpleLowercase(raw)} : parse(variant) = Unwrap(id)
        /\ \A i \in 1..Len(Unwrap(id).value) : ~IsAsciiUpper(Unwrap(id).value[i]) /\ Unwrap(id).value[i] # Uni.CapitalSigma

\* The percent-encodings of s: any subset of its characters encoded as the
\* %XX of their UTF-8 bytes, the '%' always.
C9_Encodings(s) ==
    {Flatten([i \in 1..Len(s) |-> IF i \in encoded THEN Bind(EncodeUtf8(s[i]), LAMBDA bs : Flatten([k \in 1..Len(bs) |-> PercentByte(bs[k])])) ELSE <<s[i]>>]) :
        encoded \in {e \in SUBSET (1..Len(s)) : \A i \in 1..Len(s) : s[i] = Ch("%") => i \in e}}

\* C9: DOI equality is on the decoded suffix.  For the prefix 10.5 and every
\* suffix s, parsing https://doi.org/10.5/<e>, e any percent-encoding of s,
\* yields the same Doi as parsing the raw form 10.5/<s>.
C9_DoiDecodedSuffix ==
    (pc = "parsed" /\ StartsWith(raw, Str("10.5/")) /\ Len(raw) > 5) =>
        \A e \in C9_Encodings(DropFirst(raw, 5)) : parse(Str("https://doi.org/10.5/") \o e) = Unwrap(id)

\* C10: a URL whose host is neither doi.org nor dx.doi.org is never
\* recognised as a DOI, whatever DOI-like text its path or query holds.
C10_ForeignHostNeverDoi ==
    pc = "parsed" => Bind(host_lowercase(build(raw)), LAMBDA maybe_host :
        (IsSome(maybe_host) /\ Unwrap(maybe_host) \notin {Str("doi.org"), Str("dx.doi.org")}) => Unwrap(id).kind # "Doi")

-----------------------------------------------------------------------------
(* The properties of the ISBN recogniser *)

\* The values of the characters of an ISBN: a decimal digit its value, X 10.
C11_Values(s) == [i \in 1..Len(s) |-> IF IsAsciiDigit(s[i]) THEN s[i] - 48 ELSE 10]

\* The ISBN-10 check value of nine digits: the value that makes the sum
\* weighted 10, 9, ..., 1 a multiple of 11.
C11_Check10(d) == (11 - (Sum([i \in 1..9 |-> (11 - i) * d[i]]) % 11)) % 11

\* The ISBN-13 check digit of twelve digits: the digit that makes the sum
\* weighted 1, 3, 1, 3, ... a multiple of 10.
C11_Check13(d) == (10 - (Sum([i \in 1..12 |-> (IF i % 2 = 1 THEN 1 ELSE 3) * d[i]]) % 10)) % 10

\* s is nine decimal digits and a check character, a digit or X, that is
\* correct under the mod-11 rule.
C11_Correct10(s) ==
    /\ Len(s) = 10
    /\ \A i \in 1..9 : IsAsciiDigit(s[i])
    /\ IsAsciiDigit(s[10]) \/ s[10] = Ch("X")
    /\ C11_Values(s)[10] = C11_Check10(C11_Values(s))

\* The 13-digit ISBN of a 10-digit one: 978, its first nine digits and the
\* ISBN-13 check digit of these twelve.
C11_Thirteen(s) == Bind(Str("978") \o SubSeq(s, 1, 9), LAMBDA twelve : twelve \o <<48 + C11_Check13(C11_Values(twelve))>>)

\* C11: every correct 10-digit ISBN is parsed to the Isbn whose payload is
\* 978, its first nine digits and the correct ISBN-13 check digit, and so
\* equals the parse of the corresponding 13-digit ISBN.
C11_TenDigitIsbn ==
    (pc = "parsed" /\ C11_Correct10(raw)) =>
        /\ id = Some(Isbn(C11_Thirteen(raw)))
        /\ id = Some(parse(C11_Thirteen(raw)))

\* s is 13 decimal digits, the last of them the correct check digit of the
\* first twelve.
C12_Correct13(s) ==
    /\ Len(s) = 13
    /\ \A i \in 1..13 : IsAsciiDigit(s[i])
    /\ C11_Values(s)[13] = C11_Check13(C11_Values(s))

\* C12: every correct 13-digit ISBN is parsed to the Isbn with exactly the
\* same 13 digits as payload.
C12_ThirteenDigitIsbn == (pc = "parsed" /\ C12_Correct13(raw)) => id = Some(Isbn(raw))

\* s is nine digits and a check character, or twelve digits and a check
\* character, and the check character is not the correct one.
C13_WrongCheck(s) ==
    /\ Len(s) \in {10, 13}
    /\ \A i \in 1..(Len(s) - 1) : IsAsciiDigit(s[i])
    /\ s[Len(s)] \in IsbnDigitChars
    /\ C11_Values(s)[Len(s)] # (IF Len(s) = 10 THEN C11_Check10(C11_Values(s)) ELSE C11_Check13(C11_Values(s)))

\* C13: a sequence of 10 or of 13 digits whose final check character is not
\* the correct one for the digits before it is never parsed as an Isbn:
\* parse returns a Uri or a String.
C13_BadCheckNotIsbn == (pc = "parsed" /\ C13_WrongCheck(raw)) => Unwrap(id).kind \in {"Uri", "String"}

\* C14: every Isbn that parse or from_id_string_pair returns has a payload
\* of exactly 13 characters, each a decimal digit.
C14_IsbnPayloadDigits ==
    \A result \in {id, back} :
        (IsSome(result) /\ Unwrap(result).kind = "Isbn") =>
            /\ Len(Unwrap(result).value) = 13
            /\ \A i \in 1..13 : IsAsciiDigit(Unwrap(result).value[i])

\* s without the label urn:isbn:, in any letter case, at its front.
C15_Unlabelled(s) == IF Len(s) >= 9 /\ ToLowercase(SubSeq(s, 1, 9)) = Str("urn:isbn:") THEN DropFirst(s, 9) ELSE s

\* The digit string of a written ISBN: without its label and its separators.
C15_DigitString(s) == Filter(C15_Unlabelled(s), IsbnDigitChars)

\* s is a digit string with separators inserted, behind a label or not.
C15_IsWritten(s) == \A i \in 1..Len(C15_Unlabelled(s)) : C15_Unlabelled(s)[i] \in IsbnDigitChars \cup IsbnSeparators

\* C15: ISBN recognition ignores separators and the label.  For every digit
\* string d that parse recognises as an ISBN, the forms of d with spaces or
\* hyphens inserted at any positions, with or without the label urn:isbn: in
\* any letter case before them, parse to the same Isbn.
C15_SeparatorsAndLabelIgnored ==
    (pc = "parsed" /\ C15_IsWritten(raw)) =>
        Bind(parse(C15_DigitString(raw)), LAMBDA of_digits : of_digits.kind = "Isbn" => id = Some(of_digits))

\* An ISBN written behind a label, with a hyphen and a space in it, has been
\* parsed as an Isbn.
C15_Witness ==
    /\ pc = "parsed"
    /\ Len(raw) > Len(C15_Unlabelled(raw))
    /\ \A sep \in IsbnSeparators : \E i \in 1..Len(raw) : raw[i] = sep
    /\ Unwrap(id).kind = "Isbn"
    /\ parse(C15_DigitString(raw)).kind = "Isbn"

-----------------------------------------------------------------------------
(* The properties of the ORCID and ROR recognisers *)

\* p has the shape NNNN-NNNN-NNNN-NNN[0-9X].
C16_Shape(p) ==
    /\ Len(p) = 19
    /\ \A i \in 1..19 : IF i \in {5, 10, 15} THEN p[i] = Ch("-")
                        ELSE IF i = 19 THEN IsAsciiDigit(p[i]) \/ p[i] = Ch("X")
                        ELSE IsAsciiDigit(p[i])

\* The 15 base digits of an iD of the shape, as numbers.
C16_BaseDigits(p) == Bind(SubSeq(p, 1, 4) \o SubSeq(p, 6, 9) \o SubSeq(p, 11, 14) \o SubSeq(p, 16, 18), LAMBDA ds : [i \in 1..15 |-> ds[i] - 48])

RECURSIVE C16_Total(_, _)
\* total = (total + digit) * 2 over the first n digits.
C16_Total(digits, n) == IF n = 0 THEN 0 ELSE (C16_Total(digits, n - 1) + digits[n]) * 2

\* The check character of an iD of the shape: (12 - (total mod 11)) mod 11,
\* 10 rendered as X.
C16_CheckChar(p) == Bind((12 - (C16_Total(C16_BaseDigits(p), 15) % 11)) % 11, LAMBDA check : IF check = 10 THEN Ch("X") ELSE 48 + check)

\* The input has the host orcid.org and a path of the ORCID shape.
C16_OrcidShaped == Bind(build(raw), LAMBDA input :
    /\ host_lowercase(input) = Some(Str("orcid.org"))
    /\ IsSome(path_no_slash(input))
    /\ C16_Shape(Unwrap(path_no_slash(input))))

\* C16: an input whose host is orcid.org and whose path has the shape
\* NNNN-NNNN-NNNN-NNN[0-9X] is parsed as an Orcid exactly when its final
\* character is the check character computed over the 15 base digits; when
\* the check differs, parse returns a Uri, not a String and not an Orcid.
C16_OrcidCheckDigit ==
    (pc = "parsed" /\ C16_OrcidShaped) =>
        Bind(Unwrap(path_no_slash(build(raw))), LAMBDA p :
            IF p[19] = C16_CheckChar(p) THEN id = Some(Orcid(p)) ELSE Unwrap(id).kind = "Uri")

\* C17: ORCID recognition is case-insensitive in the host and in the check
\* character, and every Orcid that parse returns has a payload of exactly 19
\* characters of the upper-case shape NNNN-NNNN-NNNN-NNN(N|X): the upper-case
\* and the lower-case form of a recognised input, the latter ending in x
\* where the former ends in X, yield the same Orcid.
C17_OrcidCaseInsensitive ==
    (pc = "parsed" /\ Unwrap(id).kind = "Orcid") =>
        /\ C16_Shape(Unwrap(id).value)
        /\ \A variant \in {ToUppercase(raw), ToLowercase(raw)} : parse(variant) = Unwrap(id)

\* An ORCID URL with an upper-case host and a lower-case x has been parsed,
\* as an Orcid.
C17_Witness ==
    /\ pc = "parsed"
    /\ Unwrap(id).kind = "Orcid"
    /\ host(build(raw)) = Some(Str("ORCID.ORG"))
    /\ raw[Len(raw)] = Ch("x")

\* The front of a ROR URL.
C18_Resolver == Str("https://ror.org/")

\* The code with the letters at the given positions in upper case.
C18_UpperCased(code, positions) == [i \in 1..Len(code) |-> IF i \in positions THEN UpperChar(code[i]) ELSE code[i]]

\* C18: ROR recognition is case-sensitive in the code.  For every URL
\* https://ror.org/<code> that parse recognises as a Ror, upper-casing any
\* letters of <code> makes parse return a Uri instead.
C18_RorCaseSensitive ==
    (pc = "parsed" /\ Unwrap(id).kind = "Ror" /\ StartsWith(raw, C18_Resolver)) =>
        Bind(DropFirst(raw, Len(C18_Resolver)), LAMBDA code :
            \A positions \in (SUBSET {i \in 1..Len(code) : IsAsciiLower(code[i])}) \ {{}} :
                parse(C18_Resolver \o C18_UpperCased(code, positions)).kind = "Uri")

\* A ROR URL whose code holds letters has been parsed, as a Ror.
C18_Witness ==
    /\ pc = "parsed"
    /\ Unwrap(id).kind = "Ror"
    /\ StartsWith(raw, C18_Resolver)
    /\ \E i \in (Len(C18_Resolver) + 1)..Len(raw) : IsAsciiLower(raw[i])

\* The characters of the base-32 alphabet of a ROR code: the decimal digits
\* and the lower-case letters other than i, l, o, u.
C19_Base32Chars == {c \in 0..127 : IsAsciiDigit(c) \/ (IsAsciiLower(c) /\ c \notin {Ch("i"), Ch("l"), Ch("o"), Ch("u")})}

\* p has the 9-character ROR shape.
C19_Shape(p) ==
    /\ Len(p) = 9
    /\ \A i \in 1..9 : IF i = 1 THEN p[i] = Ch("0")
                       ELSE IF i <= 7 THEN p[i] \in C19_Base32Chars
                       ELSE IsAsciiDigit(p[i])

\* The value of a character in the alphabet 0123456789abcdefghjkmnpqrstvwxyz.
C19_CharValue(c) == CHOOSE v \in 0..31 : Str("0123456789abcdefghjkmnpqrstvwxyz")[v + 1] = c

RECURSIVE C19_Value(_, _)
\* The first n characters of p read as a base-32 number.
C19_Value(p, n) == IF n = 0 THEN 0 ELSE C19_Value(p, n - 1) * 32 + C19_CharValue(p[n])

\* 98 - ((value * 100) mod 97) for the first 7 characters of p, the product
\* reduced before it is formed.
C19_Expected(p) == 98 - (((C19_Value(p, 7) % 97) * 100) % 97)

\* The input has the host ror.org and a path of the ROR shape.
C19_RorShaped == Bind(build(raw), LAMBDA input :
    /\ host_lowercase(input) = Some(Str("ror.org"))
    /\ IsSome(path_no_slash(input))
    /\ C19_Shape(Unwrap(path_no_slash(input))))

\* C19: an input whose host is ror.org and whose path has the 9-character
\* ROR shape is parsed as a Ror exactly when its final two digits, read as a
\* decimal number, equal 98 - ((value * 100) mod 97), value the first 7
\* characters read as a base-32 number; otherwise parse returns a Uri.
C19_RorCheckDigits ==
    (pc = "parsed" /\ C19_RorShaped) =>
        Bind(Unwrap(path_no_slash(build(raw))), LAMBDA p :
            IF (p[8] - 48) * 10 + (p[9] - 48) = C19_Expected(p) THEN id = Some(Ror(p)) ELSE Unwrap(id).kind = "Uri")

\* C20: every Ror that parse returns has a payload of exactly 9 characters:
\* the character 0, then 6 characters each a decimal digit or a lower-case
\* letter other than i, l, o, u, then 2 decimal digits.
C20_RorPayloadShape == (pc = "parsed" /\ Unwrap(id).kind = "Ror") => C19_Shape(Unwrap(id).value)

-----------------------------------------------------------------------------
(* The properties of the DOI encoder and of the two DOI forms *)

\* The characters the encoding copies: the unreserved characters of RFC 3986
\* and ! $ & ' ( ) * , / : ; = @.
C21_Copied == {c \in 0..127 : IsAsciiLetter(c) \/ IsAsciiDigit(c)} \cup {Str("-_.~!$&'()*,/:;=@")[i] : i \in 1..17}

\* %XX of one byte, with upper-case hexadecimal digits.
C21_Hex(b) == <<Ch("%"), Str("0123456789ABCDEF")[(b \div 16) + 1], Str("0123456789ABCDEF")[(b % 16) + 1]>>

RECURSIVE C21_Enc(_)
\* enc: a copied character unchanged, any other as the %XX of its UTF-8 bytes.
C21_Enc(s) ==
    IF s = <<>> THEN <<>>
    ELSE (IF Head(s) \in C21_Copied THEN <<Head(s)>>
          ELSE Bind(EncodeUtf8(Head(s)), LAMBDA bytes : Flatten([k \in 1..Len(bytes) |-> C21_Hex(bytes[k])])))
         \o C21_Enc(Tail(s))

\* C21: to_uri of a Doi with prefix p and suffix s is exactly
\* https://doi.org/ + p + / + enc(s), where enc copies the unreserved
\* characters and ! $ & ' ( ) * , / : ; = @ and writes every other character
\* as its UTF-8 bytes, each %XX in upper-case hexadecimal.
C21_DoiToUri ==
    (out.op = "to_uri" /\ Unwrap(id).kind = "Doi") =>
        out.str = Some(Str("https://doi.org/") \o Unwrap(id).prefix \o Str("/") \o C21_Enc(Unwrap(id).value))

\* to_uri has encoded a suffix that holds a copied slash, an ASCII character
\* that is encoded and a character of two UTF-8 bytes.
C21_Witness ==
    /\ out.op = "to_uri"
    /\ Unwrap(id).kind = "Doi"
    /\ \E i, j, k \in 1..Len(Unwrap(id).value) :
          /\ Unwrap(id).value[i] = Ch("/")
          /\ Unwrap(id).value[j] = Ch("%")
          /\ Unwrap(id).value[k] > 127

\* The fronts of a DOI in its URI form: the schemes and the resolvers.
C22_Fronts == {Str("https://doi.org/"), Str("http://doi.org/"), Str("https://dx.doi.org/"), Str("http://dx.doi.org/"), Str("doi:"), Str("urn:doi:"), Str("info:doi:")}

\* s is 10.<digits>/<non-empty text>.
C22_RawShape(s) ==
    /\ StartsWith(s, Str("10."))
    /\ DigitRun(s, 4) >= 1
    /\ Len(s) > 3 + DigitRun(s, 4) + 1
    /\ s[3 + DigitRun(s, 4) + 1] = Ch("/")

\* The text of a raw-shaped s after its first slash.
C22_Suffix(s) == DropFirst(s, 3 + DigitRun(s, 4) + 1)

\* The input is a front, in any letter case, before 10.<digits>/<suffix>,
\* and the percent-decoded bytes of the suffix are not UTF-8.
C22_UndecodableUriForm ==
    \E front \in C22_Fronts :
        /\ Len(raw) > Len(front)
        /\ EqIgnoreAsciiCase(SubSeq(raw, 1, Len(front)), front)
        /\ C22_RawShape(DropFirst(raw, Len(front)))
        /\ DecodeUtf8(PercentDecode(AsBytes(C22_Suffix(DropFirst(raw, Len(front)))))) = None

\* C22: a URI-form DOI input whose percent-encoded suffix does not decode to
\* valid UTF-8 is never recognised as a Doi; parse returns a Uri or a String
\* for it.
C22_UndecodableNeverDoi == (pc = "parsed" /\ C22_UndecodableUriForm) => Unwrap(id).kind \in {"Uri", "String"}

\* A resolver URL whose suffix does not decode has been parsed, as a Uri.
C22_Witness == pc = "parsed" /\ C22_UndecodableUriForm /\ StartsWith(raw, Str("HTTP://DX.DOI.ORG/")) /\ Unwrap(id).kind = "Uri"

\* The Doi of a raw-shaped input: its prefix, and the lower-cased text after
\* the first slash taken literally.
C23_LiteralDoi(s) == Bind(ToLowercase(s), LAMBDA lowered : Doi(SubSeq(lowered, 1, 3 + DigitRun(lowered, 4)), C22_Suffix(lowered)))

\* C23 as amended: the raw DOI form is checked first and never
\* percent-decoded.  For every input that, lower-cased, is
\* 10.<digits>/<non-empty text without a line feed>, parse returns the Doi
\* whose suffix is the lower-cased text after the first slash taken
\* literally: a %XX in a raw DOI stays as three characters.
C23_RawFormLiteral ==
    (pc = "parsed" /\ C22_RawShape(ToLowercase(raw)) /\ \A i \in 1..Len(raw) : raw[i] # Uni.LineFeed) =>
        id = Some(C23_LiteralDoi(raw))

\* A raw DOI that holds %61 has been parsed, and its suffix holds %61.
C23_Witness ==
    /\ pc = "parsed"
    /\ StartsWith(raw, Str("10.5/%61"))
    /\ Unwrap(id).kind = "Doi"
    /\ StartsWith(Unwrap(id).value, Str("%61"))

\* C23 as stated: for every input that, lower-cased, is
\* 10.<digits>/<non-empty text>, parse returns the Doi whose suffix is the
\* lower-cased text after the first slash taken literally.
C23_AsStated == (pc = "parsed" /\ C22_RawShape(ToLowercase(raw))) => id = Some(C23_LiteralDoi(raw))

-----------------------------------------------------------------------------
(* The properties of the recognisers taken together *)

\* The digit string of the input holds an X or an x elsewhere than as the
\* tenth of ten characters.
C24_MisplacedX == Bind(C15_DigitString(raw), LAMBDA d :
    \E i \in 1..Len(d) : d[i] \in {Ch("X"), Ch("x")} /\ ~(Len(d) = 10 /\ i = 10))

\* C24: X or x is accepted only as the final check character of the 10-digit
\* form: an input with X or x at any other position, or anywhere in a
\* 13-character form, is never parsed as an Isbn.
C24_XOnlyAsTenDigitCheck == (pc = "parsed" /\ C24_MisplacedX) => Unwrap(id).kind # "Isbn"

\* The recognisers of the specific kinds that accept the input.
C25_Accepting(input) == {parser \in {"doi", "orcid", "isbn", "ror"} : IsSome(RunParser(parser, input))}

\* C25: the four specific recognisers are mutually exclusive.  For every
\* input at most one of the DOI, ORCID, ISBN and ROR recognisers accepts, so
\* parse returns the same with the four in the opposite order.
C25_MutuallyExclusive ==
    pc = "parsed" =>
        /\ Cardinality(C25_Accepting(build(raw))) <= 1
        /\ FirstSome(<<"ror", "isbn", "orcid", "doi", "uri">>, build(raw)) \in {id, None}

\* C26: no check-digit routine fails at run time.  In the ISBN, ORCID and
\* ROR recognisers every index is within the length of the digit vector, no
\* unsigned subtraction goes below zero and no sum or product exceeds its
\* integer width, so parse fails for no input.
C26_ChecksumsNeverFail == pc = "parsed" => ~parse_fails(raw)

\* A 10-character ISBN that ends in X has gone through validate_10_digit
\* and ten_digit_to_thirteen_digit.
C26_Witness == pc = "parsed" /\ Unwrap(id).kind = "Isbn" /\ Len(raw) = 10 /\ raw[10] = Ch("X")

=============================================================================
